---- MODULE Spec2Model ----
(***************************************************************************)
(* Model of the RAG API: the SQLiteVecDB vector store                      *)
(* (src/api/module/sqlitevec.py) and the FastAPI search endpoints          *)
(* (src/api/main.py).                                                      *)
(*                                                                         *)
(* Several callers (Procs) work on one database file through the process's *)
(* SQLiteVecDB object (VECTOR_DB in main.py; a constructor call replaces    *)
(* it).  A caller runs one operation at a time, on the object it found     *)
(* when the operation began; an operation is cut into steps at the         *)
(* statements that touch the shared database file or the wall clock, so    *)
(* the steps of different callers interleave the way the statements of     *)
(* concurrent calls do.                                                    *)
(*                                                                         *)
(* The database engine is outside the repository.  It is modelled by its   *)
(* contract: a transaction is atomic and isolated (an INSERT with its      *)
(* commit is one step, a DDL statement another),                           *)
(* a vec0 column rejects a vector of another dimension, a KNN query        *)
(* returns the k nearest rows ordered by distance, and the order of rows   *)
(* at equal distance is not fixed by the query (ORDER BY distance only),   *)
(* so it is a nondeterministic choice.                                     *)
(*                                                                         *)
(* The ASGI server (uvicorn, started by run_dev.py and run_production.py)  *)
(* is outside the repository too.  Its contract: the startup handler runs  *)
(* before the first request is accepted, and an exception that leaves the  *)
(* handler fails the application's startup, upon which the server exits    *)
(* without accepting a request.                                            *)
(***************************************************************************)
EXTENDS Integers, Sequences, FiniteSets, TLC

\* ------------------------------------------------------------------ bounds

\* How many times the wall clock is read (one read per add_one that got an
\* embedding), hence also the largest number of rows ever inserted.
MaxClock == 2

\* The largest k a direct (non-HTTP) caller passes to search.
MaxDirectK == 2

\* ------------------------------------------------------- program constants

\* k: int = Field(3, ge=1, le=10)
DefaultK == 3
MinK == 1
MaxK == 10

\* ------------------------------------------------------------------ inputs

Procs == {"p1", "p2"}

\* Texts handed to search, those handed to add_one, and the constructor's
\* probe text.
Queries == {"a", "c"}
AddQueries == {"b", "c"}
ProbeText == "test"
Contents == {"doc"}

\* Dimensionalities a store is constructed with.
Dims == {2, 3}

\* k as an HTTP client may send it: omitted, or an integer.
KOmitted == [given |-> FALSE]
HttpKs == {KOmitted} \cup {[given |-> TRUE, k |-> v] : v \in {0, 1, 10, 11}}

\* The dimension recorded while the file holds no table.
NoDim == 0

NoStore == [kind |-> "NoStore"]
NoLoc == [op |-> "none"]
NoResp == [op |-> "none"]

\* ------------------------------------------------------------- pure helpers

Min(a, b) == IF a <= b THEN a ELSE b

\* The embedding provider: the raw vector it returns for a text.  The raw
\* lengths differ (2, 3 and 4 components) so that a store of dimensionality
\* D sees shorter, equal and longer vectors.
RawEmbedding(text) ==
    CASE text = "a" -> <<1, 1, 0>>
      [] text = "b" -> <<0, 1>>
      [] text = "c" -> <<1, 0, 1, 0>>
      [] OTHER -> <<0, 0, 1>>

\* embedding[:self.embedding_size]
Truncate(embedding, embedding_size) ==
    SubSeq(embedding, 1, Min(Len(embedding), embedding_size))

RECURSIVE SumSq(_, _, _)
SumSq(u, v, i) ==
    IF i > Len(u) THEN 0
    ELSE (u[i] - v[i]) * (u[i] - v[i]) + SumSq(u, v, i + 1)

\* The engine's distance between two vectors of one dimension.  The squared
\* L2 distance orders the rows exactly as the L2 distance does.
Distance(u, v) == SumSq(u, v, 1)

\* ------------------------------------------------------------------- state

VARIABLES
    tableExists,   \* whether the file holds the table "vectors"
    tableDim,      \* the dimension of its embedding column (when it exists)
    rows,          \* its committed rows, in commit order
    now,           \* the wall clock: the number of time.time() reads so far
    store,         \* the SQLiteVecDB object the callers share (VECTOR_DB)
    pc,            \* each caller's position
    loc,           \* each caller's local variables of the running operation
    resp,          \* the outcome of the operation the last step ended
    acked,         \* the rows whose add_one has returned, not dropped since
    server         \* the API process: "off", "starting", "serving", "exited"

vars ==
    <<tableExists, tableDim, rows, now, store, pc, loc, resp, acked, server>>

dbvars == <<tableExists, tableDim, rows>>

Init ==
    /\ tableExists = FALSE
    /\ tableDim = NoDim
    /\ rows = <<>>
    /\ now = 0
    /\ store = NoStore
    /\ pc = [p \in Procs |-> "idle"]
    /\ loc = [p \in Procs |-> NoLoc]
    /\ resp = NoResp
    /\ acked = {}
    /\ server = "off"

Idle(p) == pc[p] = "idle"

\* The operation of p ends: p is idle again and r is its outcome.
Finish(p, r) ==
    /\ pc' = [pc EXCEPT ![p] = "idle"]
    /\ loc' = [loc EXCEPT ![p] = NoLoc]
    /\ resp' = r
    /\ UNCHANGED server

\* An operation that is one step (it reads the database once) ends with the
\* outcome r.  Its caller needs no position: any number of callers run such
\* operations, between any two steps of the callers in Procs.
Answer(r) ==
    /\ resp' = r
    /\ UNCHANGED <<pc, loc, server>>

\* The operation of p goes on at label l with locals v; no operation ended.
Goto(p, l, v) ==
    /\ pc' = [pc EXCEPT ![p] = l]
    /\ loc' = [loc EXCEPT ![p] = v]
    /\ resp' = NoResp
    /\ UNCHANGED server

\* ------------------------------------------------------ the embed call

\* What "self.embed(text)" raises: "TypeError" when the store has no
\* embedding function (None is called), "EmbedFailure" when the provider
\* call raises, "none" when it returns a vector.
EmbedError(has_embed, embed_ok) ==
    IF ~has_embed THEN "TypeError"
    ELSE IF ~embed_ok THEN "EmbedFailure"
    ELSE "none"

\* ------------------------------------------------------- the connection

\* The connection an operation opened with connect_sqlitevec, at the time the
\* operation ends.  db.close() is the operation's last statement before it
\* returns (lines 85, 104, 127, 151) and stands in no finally clause: an
\* exception raised after the connect skips it, and the connection is left
\* open for the garbage collector.
ConnectionAtEnd(err) == IF err = "none" THEN "closed" ELSE "open"

\* ------------------------------------------- SQLiteVecDB.initialize_table

\* A mutant of DropsOldTable: the old table is dropped whatever the flag.
DropsAlways(remove_old_table) == TRUE

\* if remove_old_table: db.execute("DROP TABLE IF EXISTS vectors")
DropsOldTable(remove_old_table) == remove_old_table

\* The outcome of the call that ran initialize_table with the locals v: a
\* direct call, or a constructor call (which also tells how it got its size).
InitOutcome(v, err) ==
    IF v.op = "construct"
    THEN [op |-> v.op, err |-> err, init_db |-> v.init_db,
          remove_old_table |-> v.remove_old_table,
          size_given |-> v.size_given, has_embed |-> v.self.embed,
          probe_ok |-> TRUE, db |-> ConnectionAtEnd(err)]
    ELSE [op |-> v.op, err |-> err, init_db |-> v.init_db,
          remove_old_table |-> v.remove_old_table,
          db |-> ConnectionAtEnd(err)]

\* Lines 72-75 for a call with the locals v: connect, and DROP TABLE IF
\* EXISTS (a transaction of its own) when the flag asks for it.
InitBegin(p, v) ==
    \/ /\ DropsOldTable(v.remove_old_table)
       /\ tableExists
       /\ tableExists' = FALSE
       /\ tableDim' = NoDim
       /\ rows' = <<>>
       /\ acked' = {}
       /\ Goto(p, "init_create", v)
    \/ /\ ~(DropsOldTable(v.remove_old_table) /\ tableExists)
       /\ UNCHANGED <<dbvars, acked>>
       /\ Goto(p, "init_create", v)

\* A direct call of initialize_table on the store.
InitializeTable(p) ==
    /\ Idle(p)
    /\ store # NoStore
    /\ \E remove_old_table \in BOOLEAN :
         InitBegin(p, [op |-> "initialize_table", self |-> store,
                       init_db |-> FALSE,
                       remove_old_table |-> remove_old_table])
    /\ UNCHANGED <<now, store>>

\* Lines 77-85: CREATE VIRTUAL TABLE IF NOT EXISTS with float[embedding_size],
\* commit, close; a constructor call returns and its object is the store.
InitCreate(p) ==
    /\ pc[p] = "init_create"
    /\ \/ /\ tableExists
          /\ UNCHANGED dbvars
          /\ Finish(p, InitOutcome(loc[p], "none"))
          /\ store' = IF loc[p].op = "construct" THEN loc[p].self ELSE store
       \/ /\ ~tableExists
          /\ tableExists' = TRUE
          /\ tableDim' = loc[p].self.embedding_size
          /\ UNCHANGED rows
          /\ Finish(p, InitOutcome(loc[p], "none"))
          /\ store' = IF loc[p].op = "construct" THEN loc[p].self ELSE store
    /\ UNCHANGED <<now, acked>>

\* ------------------------------------------------- SQLiteVecDB.__init__

\* The arguments of a constructor call: embedding_size (None or a number),
\* whether an embedding_function is given, and init_db.  The calls made
\* here give an embedding function, or neither a function nor a size.
None == [given |-> FALSE]
Sizes == {None} \cup {[given |-> TRUE, size |-> d] : d \in Dims}
ConstructArgs ==
    {a \in [embedding_size : Sizes, has_embed : BOOLEAN, init_db : BOOLEAN] :
        a.has_embed \/ a.embedding_size = None}

\* What lines 41-43 raise: nothing when embedding_size is given, otherwise
\* what the probe call self.embed("test") raises.
ProbeError(args, probe_ok) ==
    IF args.embedding_size # None THEN "none"
    ELSE EmbedError(args.has_embed, probe_ok)

\* self.embedding_size as lines 41-45 set it.
EmbeddingSizeOf(args) ==
    IF args.embedding_size = None THEN Len(RawEmbedding(ProbeText))
    ELSE args.embedding_size.size

\* A mutant of ProbeRaises: the table is reset before the probe is made.
ProbeRaisesAfterReset(args) ==
    IF args.init_db
    THEN /\ tableExists' = FALSE
         /\ tableDim' = NoDim
         /\ rows' = <<>>
    ELSE UNCHANGED dbvars

\* What the database file sees of a constructor call whose probe raises: the
\* exception leaves __init__ at line 42, before lines 48-49 are reached.
ProbeRaises(args) == UNCHANGED dbvars

\* if init_db: self.initialize_table(remove_old_table=True)
CallsInitializeTable(init_db) == init_db

\* The outcome of a constructor call that did not run initialize_table;
\* probe_ok is FALSE when the probe call was made and the provider raised.
ConstructOutcome(args, probe_ok, err) ==
    [op |-> "construct", err |-> err, init_db |-> args.init_db,
     remove_old_table |-> FALSE,
     size_given |-> args.embedding_size # None, has_embed |-> args.has_embed,
     probe_ok |-> probe_ok]

\* Lines 37-49, as far as initialize_table's DROP when init_db is set.
Construct(p) ==
    /\ Idle(p)
    /\ \E args \in ConstructArgs :
       \E probe_ok \in IF args.embedding_size = None /\ args.has_embed
                        THEN BOOLEAN ELSE {TRUE} :
         LET err == ProbeError(args, probe_ok)
             self == [embed |-> args.has_embed,
                      embedding_size |-> EmbeddingSizeOf(args)]
         IN  IF err # "none"
             THEN /\ ProbeRaises(args)
                  /\ Finish(p, ConstructOutcome(args, probe_ok, err))
                  /\ UNCHANGED <<store, acked>>
             ELSE IF CallsInitializeTable(args.init_db)
             THEN /\ InitBegin(p, [op |-> "construct", self |-> self,
                                   init_db |-> args.init_db,
                                   size_given |-> args.embedding_size # None,
                                   remove_old_table |-> TRUE])
                  /\ UNCHANGED store
             ELSE /\ store' = self
                  /\ Finish(p, ConstructOutcome(args, probe_ok, "none"))
                  /\ UNCHANGED <<dbvars, acked>>
    /\ UNCHANGED now

\* ------------------------------------------------- SQLiteVecDB.add_one

\* The outcome of an add_one call, with what the properties below refer to:
\* whether the embedding call returned, the length of the raw vector, the
\* store's D, and the connection.
AddOneOutcome(err, why, query, D) ==
    [op |-> "add_one", err |-> err, why |-> why, query |-> query,
     embed_ok |-> why # "embed", raw_len |-> Len(RawEmbedding(query)),
     D |-> D, db |-> ConnectionAtEnd(err)]

\* Lines 97-100: connect, embed, truncate, read the clock.
AddOne(p) ==
    /\ Idle(p)
    /\ store # NoStore
    /\ now < MaxClock
    /\ \E query \in AddQueries, content \in Contents, embed_ok \in BOOLEAN :
         LET err == EmbedError(store.embed, embed_ok)
         IN  IF err # "none"
             THEN /\ Finish(p, AddOneOutcome(err, "embed", query,
                                             store.embedding_size))
                  /\ UNCHANGED now
             ELSE /\ now' = now + 1
                  /\ Goto(p, "add_insert",
                          [op |-> "add_one", D |-> store.embedding_size,
                           query |-> query, content |-> content,
                           embedding |-> Truncate(RawEmbedding(query),
                                                  store.embedding_size),
                           timestamp |-> now + 1])
    /\ UNCHANGED <<dbvars, store, acked>>

AddOneFails(p, why) ==
    Finish(p, AddOneOutcome("OperationalError", why, loc[p].query,
                            loc[p].D))

\* A mutant of ColumnAccepts: the column takes a vector of any length.
ColumnAcceptsAny(embedding, dim) == TRUE

\* embedding float[{self.embedding_size}]: the column takes only vectors of
\* the dimension it was declared with.
ColumnAccepts(embedding, dim) == Len(embedding) = dim

\* The row an add_one call writes.
RowOf(v) ==
    [embedding |-> v.embedding, query |-> v.query, content |-> v.content,
     timestamp |-> v.timestamp]

\* Lines 101-104: INSERT, commit, close, return.  The INSERT and its commit
\* are one transaction of the engine: no other connection sees the row
\* before the commit, and all see it after, so they are one step.
AddOneInsert(p) ==
    /\ pc[p] = "add_insert"
    /\ \/ /\ ~tableExists
          /\ AddOneFails(p, "no such table")
          /\ UNCHANGED <<rows, acked>>
       \/ /\ tableExists
          /\ ~ColumnAccepts(loc[p].embedding, tableDim)
          /\ AddOneFails(p, "dimension mismatch")
          /\ UNCHANGED <<rows, acked>>
       \/ /\ tableExists
          /\ ColumnAccepts(loc[p].embedding, tableDim)
          /\ rows' = Append(rows, RowOf(loc[p]))
          /\ acked' = acked \cup {RowOf(loc[p])}
          /\ Finish(p, AddOneOutcome("none", "", loc[p].query, loc[p].D)
                       @@ [row |-> RowOf(loc[p])])
    /\ UNCHANGED <<tableExists, tableDim, now, store>>

\* ------------------------------------------------- SQLiteVecDB.get_all

\* The rows of t whose timestamp is smaller than that of row r.
Earlier(t, r) == {i \in 1..Len(t) : t[i].timestamp < r.timestamp}

\* A mutant of OrderByTimestamp: the newest row is left out.
OrderByTimestampButLast(t) == SubSeq(t, 1, Len(t) - 1)

\* SELECT ... FROM vectors ORDER BY timestamp ASC.  No two rows share a
\* timestamp (every clock read is a new value), so the order is unique.
OrderByTimestamp(t) ==
    [i \in 1..Len(t) |->
        t[CHOOSE j \in 1..Len(t) : Cardinality(Earlier(t, t[j])) = i - 1]]

\* Lines 113-128: connect, one SELECT, close.
GetAll ==
    /\ store # NoStore
    /\ IF tableExists
       THEN Answer([op |-> "get_all", err |-> "none",
                    result |-> OrderByTimestamp(rows),
                    db |-> ConnectionAtEnd("none")])
       ELSE Answer([op |-> "get_all", err |-> "OperationalError",
                    why |-> "no such table",
                    db |-> ConnectionAtEnd("OperationalError")])
    /\ UNCHANGED <<dbvars, now, store, acked>>

\* -------------------------------------------------- SQLiteVecDB.search

\* A mutant of ResultCount: the "k = ?" constraint is lost.
ResultCountAll(n, k) == n

\* "AND k = ?": how many of n rows a KNN query for k returns.
ResultCount(n, k) == Min(n, k)

\* A mutant of DistanceOrder: ORDER BY distance DESC.
DistanceOrderDesc(d1, d2) == d1 >= d2

\* "ORDER BY distance ASC": a row at distance d1 may come before one at d2.
DistanceOrder(d1, d2) == d1 <= d2

\* A mutant of Candidates: the row committed last is not searched.
CandidatesButLast(t) == 1..(Len(t) - 1)

\* "FROM vectors WHERE embedding MATCH ?": the rows a KNN query looks at.
Candidates(t) == 1..Len(t)

Range(f) == {f[i] : i \in DOMAIN f}

\* The answers the engine may give to the KNN query of lines 147-150 on the
\* rows t: each is the sequence of the positions (in t) of the rows returned.
\* The nearest ResultCount rows, ascending by distance; which of the rows at
\* an equal distance come first, or are kept at the cut, is the engine's.
KnnAnswers(t, embedding, k) ==
    LET c == Candidates(t)
        m == ResultCount(Cardinality(c), k)
        d(i) == Distance(t[i].embedding, embedding)
    IN  {s \in [1..m -> c] :
           /\ \A i, j \in 1..m : i < j =>
                 s[i] # s[j] /\ DistanceOrder(d(s[i]), d(s[j]))
           /\ \A j \in c \ Range(s) : \A i \in 1..m :
                 DistanceOrder(d(s[i]), d(j))}

\* The (query, content, distance) tuples of one answer; rowid, the position
\* of the row in the table, is kept beside them to tell equal tuples apart.
ResultOf(t, embedding, s) ==
    [i \in 1..Len(s) |->
        [query |-> t[s[i]].query, content |-> t[s[i]].content,
         distance |-> Distance(t[s[i]].embedding, embedding),
         rowid |-> s[i]]]

\* The outcomes one call search(query, k) on the store may have in the
\* current state.  Lines 142-145: connect, embed, truncate; lines 147-157:
\* the KNN query, close, the data frame.  The call reads the database once,
\* in its SELECT, so it is one step.
SearchOutcomes(query, k, embed_ok) ==
    LET err == EmbedError(store.embed, embed_ok)
        embedding == Truncate(RawEmbedding(query), store.embedding_size)
        failed(e, why) == [err |-> e, why |-> why, db |-> ConnectionAtEnd(e)]
    IN  IF err # "none" THEN {failed(err, "embed")}
        ELSE IF ~tableExists
        THEN {failed("OperationalError", "no such table")}
        ELSE IF ~ColumnAccepts(embedding, tableDim)
        THEN {failed("OperationalError", "dimension mismatch")}
        ELSE {[err |-> "none", why |-> "", embedding |-> embedding,
               db |-> ConnectionAtEnd("none"),
               results |-> ResultOf(rows, embedding, s)] :
                 s \in KnnAnswers(rows, embedding, k)}

\* A direct call of search.
Search ==
    /\ store # NoStore
    /\ \E query \in Queries, k \in 1..MaxDirectK, embed_ok \in BOOLEAN :
         \E o \in SearchOutcomes(query, k, embed_ok) :
            Answer(o @@ [op |-> "search", query |-> query, k |-> k])
    /\ UNCHANGED <<dbvars, now, store, acked>>

\* ------------------------------------------------------ the HTTP layer

\* A mutant of KValid: the upper bound is not checked.
KValidNoUpper(k) == k = KOmitted \/ k.k >= MinK

\* Field(3, ge=1, le=10) and Query(3, ge=1, le=10): an omitted k is valid.
KValid(k) == k = KOmitted \/ (k.k >= MinK /\ k.k <= MaxK)

\* The k the handler sees.
KOf(k) == IF k = KOmitted THEN DefaultK ELSE k.k

\* count=len(results)
CountOf(results, k) == Len(results)

\* The response to a request rejected before the store was called.
\* called tells whether VECTOR_DB.search was called (embedding, store read).
HttpRejected(status, query, sent) ==
    [op |-> "http_search", status |-> status, query |-> query,
     sent |-> sent, called |-> FALSE]

\* Lines 109-130: the handler's try block around the outcome o of search.
HttpResponse(query, sent, k, o) ==
    IF o.err # "none"
    THEN [op |-> "http_search", status |-> 500, query |-> query,
          sent |-> sent, called |-> TRUE]
    ELSE [op |-> "http_search", status |-> 200, query |-> query,
          sent |-> sent, called |-> TRUE, k |-> k,
          results |-> [i \in 1..Len(o.results) |->
                          [content |-> o.results[i].content,
                           distance |-> o.results[i].distance]],
          count |-> CountOf(o.results, k)]

\* POST and GET /v1/search/: the validation of k (SearchRequest, and the
\* Query parameter of search_get), the check of VECTOR_DB, the search.
HttpSearch ==
    /\ \E query \in Queries, k \in HttpKs :
         IF ~KValid(k)
         THEN Answer(HttpRejected(422, query, k))
         ELSE IF store = NoStore
         THEN Answer(HttpRejected(500, query, k))
         ELSE \E embed_ok \in BOOLEAN :
              \E o \in SearchOutcomes(query, KOf(k), embed_ok) :
                 Answer(HttpResponse(query, k, KOf(k), o))
    /\ UNCHANGED <<dbvars, now, store, acked>>

\* ---------------------------------------------------------- the system

Write(p) ==
    \/ Construct(p)
    \/ InitializeTable(p)
    \/ InitCreate(p)
    \/ AddOne(p)
    \/ AddOneInsert(p)

\* Two callers write concurrently; any number of callers read.
Next ==
    \/ \E p \in Procs : Write(p)
    \/ GetAll
    \/ Search

Spec == Init /\ [][Next]_vars

\* The API process: one caller does the writes, one at a time, and the
\* search requests arrive between them.
ApiCaller == "p1"

NextApi ==
    \/ Write(ApiCaller)
    \/ GetAll
    \/ Search
    \/ HttpSearch

SpecApi == Init /\ [][NextApi]_vars

\* ------------------------------------------------- the served API process

\* What a run of startup_event is given: whether LLM_API_KEY is set, whether
\* get_sqlite_db_path finds the database file, whether the constructor's
\* probe call returns.
StartupInputs == [api_key : BOOLEAN, db_file : BOOLEAN, probe_ok : BOOLEAN]

\* The arguments of the constructor call of lines 68-71: no embedding_size,
\* the provider's embed, init_db left at its default.
StartupArgs == [embedding_size |-> None, has_embed |-> TRUE, init_db |-> FALSE]

\* The exception raised inside the try block of startup_event (lines 51-73),
\* "none" when line 73 is reached.
StartupError(in) ==
    IF ~in.api_key THEN "ValueError"
    ELSE IF ~in.db_file THEN "FileNotFoundError"
    ELSE ProbeError(StartupArgs, in.probe_ok)

\* A mutant of AfterStartup: the except clause swallows the exception.
AfterStartupSwallowed(err) == "serving"

\* Lines 75-76 re-raise whatever the try block raised, so the exception leaves
\* the startup handler and the server exits; otherwise it starts serving.
AfterStartup(err) == IF err = "none" THEN "serving" ELSE "exited"

\* The server loads api.main: START_TIME is taken and VECTOR_DB = None
\* (lines 39-44).  What was done to the database file before belongs to
\* other processes.
LoadApp ==
    /\ server = "off"
    /\ \A p \in Procs : Idle(p)
    /\ server' = "starting"
    /\ store' = NoStore
    /\ resp' = [op |-> "load_app"]
    /\ UNCHANGED <<dbvars, now, pc, loc, acked>>

\* startup_event, lines 46-76.
Startup ==
    /\ server = "starting"
    /\ \E in \in StartupInputs :
         LET err == StartupError(in)
         IN  /\ store' = IF err = "none"
                         THEN [embed |-> TRUE,
                               embedding_size |-> EmbeddingSizeOf(StartupArgs)]
                         ELSE store
             /\ server' = AfterStartup(err)
             /\ resp' = [op |-> "startup", err |-> err]
    /\ UNCHANGED <<dbvars, now, pc, loc, acked>>

\* The health endpoint, lines 144-147: it answers without looking at
\* VECTOR_DB; db_file is DB_NAME, set at line 72 with VECTOR_DB.
Health ==
    /\ Answer([op |-> "health", status |-> 200,
               db_file |-> IF store = NoStore THEN "None" ELSE "default"])
    /\ UNCHANGED <<dbvars, now, store, acked>>

\* The database file is filled before the API process is started.
OfflineWrite == server = "off" /\ Write(ApiCaller)

\* The server hands a request to its handler only while it is serving.
ServeSearch == server = "serving" /\ HttpSearch
ServeHealth == server = "serving" /\ Health

NextService ==
    \/ OfflineWrite
    \/ LoadApp
    \/ Startup
    \/ ServeSearch
    \/ ServeHealth

SpecService == Init /\ [][NextService]_vars

\* -------------------------------------------------------------- properties

\* What the outcome of the last step says, in the words of the properties.
SearchReturned == resp.op = "search" /\ resp.err = "none"
HttpReturned == resp.op = "http_search" /\ resp.status = 200
GetAllReturned == resp.op = "get_all" /\ resp.err = "none"
AddOneEnded == resp.op = "add_one"
AddOneReturned == resp.op = "add_one" /\ resp.err = "none"

\* The query vector a search of the current store object hands to the engine.
QueryVector(query) == Truncate(RawEmbedding(query), store.embedding_size)

\* C1: a search of a store holding N records, N >= 0, with k >= 1 returns
\* exactly min(N, k) results, and raises no error once the query is embedded
\* (the table exists and takes vectors of the store's dimension); the HTTP
\* response's count is the number of results it carries.
C1_SearchCardinality ==
    /\ SearchReturned => Len(resp.results) = Min(Len(rows), resp.k)
    /\ ( /\ resp.op = "search"
         /\ resp.why # "embed"
         /\ tableExists
         /\ Len(QueryVector(resp.query)) = tableDim ) => resp.err = "none"
    /\ HttpReturned =>
          /\ Len(resp.results) = Min(Len(rows), resp.k)
          /\ resp.count = Len(resp.results)

\* C1's case: an HTTP search asks for more than the N >= 1 records stored.
C1_Witness ==
    /\ HttpReturned
    /\ Len(rows) >= 1
    /\ resp.k > Len(rows)
    /\ resp.count = Len(rows)

\* C1's other cases: the empty store, and a store holding more than k.
C1_WitnessEmpty == SearchReturned /\ Len(rows) = 0 /\ resp.results = <<>>
C1_WitnessCut == SearchReturned /\ Len(rows) > resp.k

\* The rows a search did not return.
NotReturned == {i \in 1..Len(rows) :
                  \A n \in 1..Len(resp.results) : resp.results[n].rowid # i}

\* C2: the results of a search are in ascending order of distance, and they
\* are the rows nearest to the truncated query vector: no row left out is
\* nearer than a row returned.
C2_NearestAscending ==
    SearchReturned =>
       /\ \A i, j \in 1..Len(resp.results) :
             i < j => /\ resp.results[i].distance <= resp.results[j].distance
                      /\ resp.results[i].rowid # resp.results[j].rowid
       /\ \A i \in 1..Len(resp.results) :
             /\ resp.results[i].rowid \in 1..Len(rows)
             /\ resp.results[i].distance =
                   Distance(rows[resp.results[i].rowid].embedding,
                            QueryVector(resp.query))
       /\ \A r \in NotReturned : \A i \in 1..Len(resp.results) :
             resp.results[i].distance <=
                Distance(rows[r].embedding, QueryVector(resp.query))

\* C2's case: two results at different distances, the nearer one first,
\* found with a query vector that was truncated.
C2_Witness ==
    /\ SearchReturned
    /\ Len(resp.results) = 2
    /\ resp.results[1].distance < resp.results[2].distance
    /\ Len(RawEmbedding(resp.query)) > store.embedding_size

\* C2's other case: a row left out because it is farther away.
C2_WitnessLeftOut ==
    /\ SearchReturned
    /\ \E r \in NotReturned :
          resp.results[1].distance <
             Distance(rows[r].embedding, QueryVector(resp.query))

\* C3: after add_one calls on a store constructed with dimensionality D,
\* every stored vector has exactly D components.
C3_Original ==
    AddOneReturned =>
       \A i \in 1..Len(rows) : Len(rows[i].embedding) = resp.D

\* The rows of a table, as a set.
RowSet(t) == {t[i] : i \in 1..Len(t)}

\* C4: a row whose add_one has returned is in the result of every get_all
\* and is a candidate of every search (it is returned, or k rows at most as
\* far away are), whatever other calls run at the same time; and a get_all
\* sees only whole rows of add_one calls that committed.
C4_CommittedVisible ==
    /\ acked \subseteq RowSet(rows)
    /\ GetAllReturned =>
          /\ acked \subseteq RowSet(resp.result)
          /\ RowSet(resp.result) \subseteq acked
          /\ Len(resp.result) = Len(rows)
    /\ SearchReturned =>
          \A r \in NotReturned :
             /\ Len(resp.results) = resp.k
             /\ \A i \in 1..Len(resp.results) :
                   resp.results[i].distance <=
                      Distance(rows[r].embedding, QueryVector(resp.query))

\* C4's case: a get_all returns a committed row while another add_one is
\* between its clock read and its INSERT.
C4_Witness ==
    /\ GetAllReturned
    /\ Len(resp.result) >= 1
    /\ \E p \in Procs : pc[p] = "add_insert"

\* C4's other case: a search over two committed rows returns both.
C4_WitnessSearch ==
    /\ SearchReturned
    /\ Cardinality(acked) = 2
    /\ Len(resp.results) = 2

\* An error raised by the call of the embedding function.
IsEmbeddingError(err) == err \in {"TypeError", "EmbedFailure"}

\* C5: an add_one whose embedding call fails, or returns fewer than D
\* components, fails with the embedding error and leaves the rows unchanged.
C5_Original ==
    [][ (resp'.op = "add_one"
         /\ (~resp'.embed_ok \/ resp'.raw_len < resp'.D))
        => (IsEmbeddingError(resp'.err) /\ rows' = rows) ]_vars

\* C5 as the code has it: an add_one whose embedding call fails ends with
\* that call's error and the rows unchanged; a vector of fewer than D
\* components is handed to the table as it is, so add_one ends with the
\* storage layer's error and the rows unchanged, unless the table's column
\* has exactly that many components, and then the row is stored.
C5_ShortVector ==
    [][ resp'.op = "add_one" =>
          /\ ~resp'.embed_ok => (IsEmbeddingError(resp'.err) /\ rows' = rows)
          /\ (resp'.embed_ok /\ resp'.raw_len < resp'.D) =>
                IF tableExists /\ resp'.raw_len = tableDim
                THEN resp'.err = "none" /\ rows' = Append(rows, resp'.row)
                ELSE resp'.err = "OperationalError" /\ rows' = rows ]_vars

\* C5's case: the table holds a row, and an add_one whose vector is shorter
\* than D has ended with the storage layer's error.
C5_Witness ==
    /\ AddOneEnded
    /\ resp.embed_ok
    /\ resp.raw_len < resp.D
    /\ resp.err = "OperationalError"
    /\ resp.why = "dimension mismatch"
    /\ Len(rows) >= 1

\* C5's other cases: the embedding call failed; the short vector was stored.
C5_WitnessEmbed == AddOneEnded /\ ~resp.embed_ok /\ Len(rows) >= 1
C5_WitnessStored == AddOneReturned /\ resp.raw_len < resp.D

\* The distances of the n nearest rows of table t to the vector e, nearest
\* first: a function of the table, the vector and n alone.
NearestDistances(t, e, n) ==
    LET d(i) == Distance(t[i].embedding, e)
        before(i) == {j \in 1..Len(t) : d(j) < d(i) \/ (d(j) = d(i) /\ j < i)}
    IN  [m \in 1..Min(Len(t), n) |->
            d(CHOOSE i \in 1..Len(t) : Cardinality(before(i)) = m - 1)]

\* C6: rows at equal distance from the query come in insertion order, the
\* earliest first, within the results and where the results are cut off.
C6_Original ==
    SearchReturned =>
       /\ \A i, j \in 1..Len(resp.results) :
             (i < j /\ resp.results[i].distance = resp.results[j].distance)
                => resp.results[i].rowid < resp.results[j].rowid
       /\ \A r \in NotReturned : \A i \in 1..Len(resp.results) :
             resp.results[i].distance =
                   Distance(rows[r].embedding, QueryVector(resp.query))
                => resp.results[i].rowid < r

\* C6 as the code has it: the query orders by distance only, so what repeated
\* identical searches of an unchanged store share is the sequence of
\* distances; which of the rows at equal distance come first is not fixed.
C6_DistancesDetermined ==
    SearchReturned =>
       [n \in 1..Len(resp.results) |-> resp.results[n].distance]
          = NearestDistances(rows, QueryVector(resp.query), resp.k)

\* C6's case: two rows at equal distance, the later inserted returned first.
C6_Witness ==
    /\ SearchReturned
    /\ Len(resp.results) = 2
    /\ resp.results[1].distance = resp.results[2].distance
    /\ resp.results[1].rowid > resp.results[2].rowid

\* C7: a search request whose k is outside [1, 10] is answered 422 and the
\* store's search is not called; a request without k is not rejected for it
\* and searches with k = 3.
C7_KValidated ==
    resp.op = "http_search" =>
       /\ (resp.sent # KOmitted /\ (resp.sent.k < 1 \/ resp.sent.k > 10))
             => (resp.status = 422 /\ ~resp.called)
       /\ resp.sent = KOmitted => resp.status # 422
       /\ (resp.sent = KOmitted /\ resp.status = 200) =>
             (resp.k = 3 /\ Len(resp.results) = Min(Len(rows), 3))
       /\ (resp.sent # KOmitted /\ resp.status = 200) => resp.k = resp.sent.k

\* C7's case: a store with a row is there to be searched, and a request with
\* k = 11 is answered 422.
C7_Witness ==
    /\ resp.op = "http_search"
    /\ resp.sent # KOmitted
    /\ resp.sent.k = 11
    /\ resp.status = 422
    /\ store # NoStore
    /\ Len(rows) >= 1

\* C7's other cases: k = 0 is rejected, a request without k is served.
C7_WitnessLow ==
    resp.op = "http_search" /\ resp.sent # KOmitted /\ resp.sent.k = 0
C7_WitnessOmitted ==
    HttpReturned /\ resp.sent = KOmitted /\ Len(resp.results) >= 1

\* C8: a constructor call given no embedding_size, whose embedding function
\* is absent or fails on the probe, raises before the schema is touched,
\* init_db set or not: the table and its rows are as they were and the call
\* leaves no store object; and only such a call raises.
C8_ProbeBeforeSchema ==
    [][ resp'.op = "construct" =>
          /\ (~resp'.size_given /\ (~resp'.has_embed \/ ~resp'.probe_ok))
                => /\ IsEmbeddingError(resp'.err)
                   /\ UNCHANGED <<tableExists, tableDim, rows, store>>
          /\ resp'.err # "none"
                => (~resp'.size_given
                    /\ (~resp'.has_embed \/ ~resp'.probe_ok)) ]_vars

\* C8's case: a constructor call with init_db set has raised at the probe,
\* and the table still holds its row.
C8_Witness ==
    /\ resp.op = "construct"
    /\ resp.err # "none"
    /\ resp.init_db
    /\ tableExists
    /\ Len(rows) >= 1

\* C8's other case: the probe of a given embedding function failed.
C8_WitnessProbe ==
    resp.op = "construct" /\ ~resp.probe_ok /\ resp.init_db

\* C9: rows are removed only by initialize_table(remove_old_table=True),
\* which a constructor call runs only when init_db is set; every other step
\* leaves the table and its rows as they were, but for add_one, which
\* appends its one row.
C9_RowsRemovedOnlyByReset ==
    [][ (rows' # rows \/ (tableExists /\ ~tableExists')) =>
          \/ \E p \in Procs :
                /\ pc[p] = "add_insert"
                /\ pc'[p] = "idle"
                /\ tableExists'
                /\ rows' = Append(rows, RowOf(loc[p]))
          \/ \E p \in Procs :
                /\ pc[p] = "idle"
                /\ pc'[p] = "init_create"
                /\ loc'[p].remove_old_table
                /\ loc'[p].op = "construct" => loc'[p].init_db
                /\ rows' = <<>> ]_vars

\* C9's case: initialize_table(remove_old_table=False) has run on a table
\* that holds rows, and they are still there.
C9_Witness ==
    /\ resp.op = "initialize_table"
    /\ ~resp.remove_old_table
    /\ Len(rows) >= 1

\* C9's other case: a constructor call without init_db over a table with rows.
C9_WitnessConstruct ==
    resp.op = "construct" /\ resp.err = "none" /\ ~resp.init_db /\ Len(rows) >= 1

\* C10: get_all returns the rows in the order their add_one calls committed.
C10_Original == GetAllReturned => resp.result = rows

\* The API process ran its startup handler and VECTOR_DB is still None.
StartupFailed == server \in {"serving", "exited"} /\ store = NoStore

\* An HTTP request was answered by the last step.
Responded == resp.op \in {"http_search", "health"}

\* C11: once the store's initialization has failed at startup (no API key, no
\* database file, a failing probe), the service answers no request: no search
\* or health request gets a success response, and a search request that is
\* handled gets status 500.
C11_NoServiceAfterFailedStartup ==
    StartupFailed =>
       /\ ~Responded
       /\ Responded => resp.status # 200
       /\ resp.op = "http_search" => resp.status = 500

\* C11's case: the database file holds a row and the probe of startup_event
\* has failed; the server has exited.
C11_Witness ==
    /\ StartupFailed
    /\ server = "exited"
    /\ resp = [op |-> "startup", err |-> "EmbedFailure"]
    /\ Len(rows) >= 1

\* C11's other cases: no API key, no database file; and a startup that
\* succeeded, after which requests are answered.
C11_WitnessKey == StartupFailed /\ resp.op = "startup" /\ resp.err = "ValueError"
C11_WitnessFile ==
    StartupFailed /\ resp.op = "startup" /\ resp.err = "FileNotFoundError"
C11_WitnessServing == server = "serving" /\ resp.op = "health"

\* The operations of the store that open a connection.
StoreOperations == {"initialize_table", "add_one", "search", "get_all"}

\* C12: every store operation has released the connection it opened by the
\* time it ends, whether it returns or raises.
C12_Original == resp.op \in StoreOperations => resp.db = "closed"

====
